---- MODULE Spec2Model ----
(***************************************************************************)
(* A model of pybemt/solver.py: the blade-element solver (Section, Rotor,  *)
(* Solver).                                                                *)
(*                                                                         *)
(* Numbers.  A Python/numpy float is modelled as a fixed-point integer:    *)
(* the finite value x is the integer x*Scale, |x*Scale| <= FMax; the three *)
(* special values are PInf, NInf and NaN.  Arithmetic follows IEEE-754 as  *)
(* numpy applies it to the values that come out of the airfoil tables: a   *)
(* result beyond FMax overflows to an infinity, x/0 is an infinity with    *)
(* the sign of x, 0/0 and inf-inf are NaN, and every comparison with NaN   *)
(* is false.  The sign of a zero is not kept.                              *)
(* Angles are integers in units of pi/AngPi radians.                       *)
(***************************************************************************)
EXTENDS Integers, Sequences, FiniteSets, TLC

\* ------------------------------------------------------------------ floats

Scale == 1000
FMax == 2000000
AngPi == 1800
PiF == 3142

PInf == FMax + 1
NInf == -(FMax + 1)
NaN == FMax + 2
\* the marker of a math-library call that raised OverflowError
OverflowError == FMax + 3
\* the marker of a division of two Python floats that raised ZeroDivisionError
ZeroDivisionError == FMax + 4
Raised(x) == x > NaN

Fl(n) == n * Scale

IsNaN(x) == x = NaN
IsFinite(x) == x >= -FMax /\ x <= FMax
IAbs(n) == IF n < 0 THEN -n ELSE n
Sgn(x) == IF x > 0 THEN 1 ELSE IF x < 0 THEN -1 ELSE 0
InfOf(s) == IF s > 0 THEN PInf ELSE NInf
Norm(n) == IF n > FMax THEN PInf ELSE IF n < -FMax THEN NInf ELSE n

FNeg(x) == IF IsNaN(x) THEN NaN ELSE -x
FAbs(x) == IF IsNaN(x) THEN NaN ELSE IAbs(x)

FAdd(x, y) ==
    IF IsNaN(x) \/ IsNaN(y) THEN NaN
    ELSE IF ~IsFinite(x) THEN (IF ~IsFinite(y) /\ y # x THEN NaN ELSE x)
    ELSE IF ~IsFinite(y) THEN y
    ELSE Norm(x + y)

FSub(x, y) == FAdd(x, FNeg(y))

FMul(x, y) ==
    IF IsNaN(x) \/ IsNaN(y) THEN NaN
    ELSE IF ~IsFinite(x) \/ ~IsFinite(y)
         THEN (IF x = 0 \/ y = 0 THEN NaN ELSE InfOf(Sgn(x) * Sgn(y)))
    ELSE IF x = 0 \/ y = 0 THEN 0
    ELSE IF IAbs(x) > (FMax * Scale) \div IAbs(y) THEN InfOf(Sgn(x) * Sgn(y))
    ELSE Sgn(x) * Sgn(y) * ((IAbs(x) * IAbs(y) + (Scale \div 2)) \div Scale)

FDiv(x, y) ==
    IF IsNaN(x) \/ IsNaN(y) THEN NaN
    ELSE IF ~IsFinite(y) THEN (IF ~IsFinite(x) THEN NaN ELSE 0)
    ELSE IF ~IsFinite(x) THEN (IF y < 0 THEN FNeg(x) ELSE x)
    ELSE IF y = 0 THEN (IF x = 0 THEN NaN ELSE InfOf(Sgn(x)))
    ELSE Norm(Sgn(x) * Sgn(y) * ((IAbs(x) * Scale + (IAbs(y) \div 2)) \div IAbs(y)))

\* x / y of two Python floats: a zero divisor raises
PyDiv(x, y) == IF y = 0 THEN ZeroDivisionError ELSE FDiv(x, y)

FLt(x, y) == ~IsNaN(x) /\ ~IsNaN(y) /\ x < y
FLe(x, y) == ~IsNaN(x) /\ ~IsNaN(y) /\ x <= y
FGt(x, y) == FLt(y, x)
FGe(x, y) == FLe(y, x)

\* Python's min(a, b): b when b < a, else a
PyMin(a, b) == IF FLt(b, a) THEN b ELSE a

RECURSIVE ISqrtBetween(_, _, _)
ISqrtBetween(n, lo, hi) ==
    IF lo >= hi THEN lo
    ELSE LET mid == (lo + hi + 1) \div 2
         IN  IF mid * mid <= n THEN ISqrtBetween(n, mid, hi)
             ELSE ISqrtBetween(n, lo, mid - 1)

\* math.sqrt of a value >= 0 (the callers check the sign first)
FSqrt(x) ==
    IF IsNaN(x) THEN NaN
    ELSE IF x = PInf THEN PInf
    ELSE ISqrtBetween(x * Scale, 0, 44722)

\* e^(-f) for a finite f >= 0; a result below the resolution underflows to 0
EInv == 368
ExpUnderflowArg == 8 * Scale
RECURSIVE ExpNeg(_)
ExpNeg(f) ==
    IF f > ExpUnderflowArg THEN 0
    ELSE IF f >= Scale THEN (ExpNeg(f - Scale) * EInv + (Scale \div 2)) \div Scale
    ELSE LET f2 == (f * f) \div Scale
             f3 == (f2 * f) \div Scale
             f4 == (f3 * f) \div Scale
             f5 == (f4 * f) \div Scale
         IN  Scale - f + (f2 \div 2) - (f3 \div 6) + (f4 \div 24) - (f5 \div 120)

\* math.exp: raises OverflowError when the result is beyond the float range
\* (x > 709.78); a result above FMax is represented by FMax
ExpOverflowArg == 709 * Scale + 782
MathExp(x) ==
    IF IsNaN(x) THEN NaN
    ELSE IF x = NInf THEN 0
    ELSE IF x > ExpOverflowArg THEN OverflowError
    ELSE IF x <= 0 THEN ExpNeg(-x)
    ELSE LET e == ExpNeg(x)
         IN  IF e = 0 THEN FMax
             ELSE IF (Scale * Scale) \div e > FMax THEN FMax
             ELSE (Scale * Scale) \div e

\* math.acos on [0, 1] (radians): pi*sqrt((1-x)/(4+x)), exact at 0 and at 1
MathAcos(x) ==
    FMul(PiF, ISqrtBetween(((Fl(1) - x) * Scale * Scale) \div (Fl(4) + x), 0, Scale))

\* sin and cos of an angle in units of pi/AngPi (Bhaskara's rational form)
SinHalfTurn(x) ==
    LET p == x * (AngPi - x)
    IN  (p * Scale) \div ((((5 * AngPi * AngPi) \div 4) - p) \div 4)

MathSin(x) ==
    LET y == x % (2 * AngPi)
    IN  IF y <= AngPi THEN SinHalfTurn(y) ELSE -SinHalfTurn(y - AngPi)

MathCos(x) == MathSin(x + (AngPi \div 2))

\* math.radians / np.radians of an angle in degrees
Radians(deg) == (deg * AngPi) \div 180

\* ----------------------------------------------------------------- Airfoil
\* pybemt/airfoil.py is not among the source files: an airfoil is the pair of
\* deterministic functions Cl(alpha), Cd(alpha) of the interface.  Three
\* airfoils: constant coefficients, a flat plate, and one that gives no force.

Airfoils == {"const", "plate", "null"}

Cl(airfoil, alpha) ==
    CASE airfoil = "const" -> Scale \div 2
      [] airfoil = "plate" -> FMul(FMul(Fl(2), MathSin(alpha)), MathCos(alpha))
      [] OTHER -> 0

Cd(airfoil, alpha) ==
    CASE airfoil = "const" -> Scale \div 50
      [] airfoil = "plate" ->
            FAdd(Scale \div 50, FMul(FMul(Fl(2), MathSin(alpha)), MathSin(alpha)))
      [] OTHER -> 0

\* ----------------------------------------------------------------- Section
\* A section is a record: the static fields radius, width, pitch, chord,
\* airfoil, C, sigma and the fields a solve writes: a, ap, Re, dT, dQ, F, Cl, Cd.
\* A rotor is a record: n_blades, diameter, radius_hub, blade_radius, area,
\* sections.

\* Section.precalc
sigma_of(n_blades, chord, radius) ==
    PyDiv(FMul(Fl(n_blades), chord), FMul(FMul(Fl(2), PiF), radius))

\* Section.__init__
Section(airfoil, radius, width, pitch, chord, n_blades, mode) ==
    [airfoil |-> airfoil, radius |-> radius, width |-> width, pitch |-> pitch,
     chord |-> chord, C |-> IF mode = "turbine" THEN -1 ELSE 1,
     a |-> 0, ap |-> 0, Re |-> 0, dT |-> 0, dQ |-> 0, F |-> 0, Cl |-> 0, Cd |-> 0,
     sigma |-> sigma_of(n_blades, chord, radius)]

\* a variant of the guard with the sign of f lost
prandtl_guard_unsigned(f) == FGt(f, Fl(500))

\* the guard of prandtl: exp is not evaluated when -f > 500
prandtl_guard(f) == FGt(FNeg(f), Fl(500))

\* f of prandtl(dr, r, phi), nested in Section.tip_loss
prandtl_f(n_blades, dr, r, phi) ==
    PyDiv(FMul(Fl(n_blades), dr), FMul(FMul(Fl(2), r), MathSin(phi)))

\* 2*acos(min(1.0, exp(-f)))/pi, for the value e of exp(-f)
prandtl_acos(e) ==
    IF Raised(e) THEN e
    ELSE PyDiv(FMul(Fl(2), MathAcos(PyMin(Fl(1), e))), PiF)

\* the branches of prandtl, for the value of f
prandtl_of(f) ==
    IF Raised(f) THEN f
    ELSE IF prandtl_guard(f) THEN Fl(1)
    ELSE prandtl_acos(MathExp(FNeg(f)))

prandtl(n_blades, dr, r, phi) == prandtl_of(prandtl_f(n_blades, dr, r, phi))

\* F = Ftip*Fhub
tip_loss_product(Ftip, Fhub) ==
    IF Raised(Ftip) THEN Ftip
    ELSE IF Raised(Fhub) THEN Fhub
    ELSE FMul(Ftip, Fhub)

\* Section.tip_loss: the value returned and stored in self.F
tip_loss(rot, sec, phi) ==
    IF phi = 0 THEN Fl(1)
    ELSE tip_loss_product(
             prandtl(rot.n_blades, FSub(rot.blade_radius, sec.radius), sec.radius, phi),
             prandtl(rot.n_blades, FSub(sec.radius, rot.radius_hub), sec.radius, phi))

\* the local Cl, Cd of Section.airfoil_forces
airfoil_alpha(sec, phi) == sec.C * (sec.pitch - phi)

\* Section.airfoil_forces: <<CT, CQ>>
airfoil_forces(sec, phi) ==
    LET C == Fl(sec.C)
        alpha == airfoil_alpha(sec, phi)
        cl == Cl(sec.airfoil, alpha)
        cd == Cd(sec.airfoil, alpha)
        CT == FSub(FMul(cl, MathCos(phi)), FMul(FMul(C, cd), MathSin(phi)))
        CQ == FAdd(FMul(cl, MathSin(phi)), FMul(FMul(C, cd), MathCos(phi)))
    IN  <<CT, CQ>>

\* a, ap of Section.induction_factors, for the values F of tip_loss and
\* c = <<CT, CQ>> of airfoil_forces
induction_of(sec, F, c, phi) ==
    LET C == Fl(sec.C)
        s == MathSin(phi)
        kappa == FDiv(FMul(FMul(Fl(4), F), FMul(s, s)), FMul(sec.sigma, c[1]))
        kappap == FDiv(FMul(FMul(FMul(Fl(4), F), s), MathCos(phi)),
                       FMul(sec.sigma, c[2]))
    IN  <<FDiv(Fl(1), FSub(kappa, C)), FDiv(Fl(1), FAdd(kappap, C)), F>>

\* Section.induction_factors: <<a, ap, F>>: it returns a, ap, and its call of
\* tip_loss stores F in self.F
induction_factors(rot, sec, phi) ==
    induction_of(sec, tip_loss(rot, sec, phi), airfoil_forces(sec, phi), phi)

\* the residual Section.func returns
func_resid(sec, ind, phi, v_inf, omega) ==
    LET C == Fl(sec.C)
    IN  FSub(FDiv(MathSin(phi), FAdd(Fl(1), FMul(C, ind[1]))),
             FDiv(FMul(v_inf, MathCos(phi)),
                  FMul(FMul(omega, sec.radius), FSub(Fl(1), FMul(C, ind[2])))))

\* Section.func stores self.a, self.ap (and self.F through tip_loss)
func_store(sec, ind) == [sec EXCEPT !.a = ind[1], !.ap = ind[2], !.F = ind[3]]

\* Section.func, for the value ind of self.induction_factors(phi)
func_of(sec, ind, phi, v_inf, omega) ==
    [resid |-> func_resid(sec, ind, phi, v_inf, omega), sec |-> func_store(sec, ind)]

\* Section.func: the residual returned, and the section as the call leaves it
func(rot, sec, phi, v_inf, omega) ==
    func_of(sec, induction_factors(rot, sec, phi), phi, v_inf, omega)

\* a variant of forces that reads the a, ap and F the section holds instead of
\* evaluating them at phi
forces_induction_stored(rot, sec, phi) == <<sec.a, sec.ap, sec.F>>

\* a, ap = self.induction_factors(phi) in Section.forces
forces_induction(rot, sec, phi) == induction_factors(rot, sec, phi)

\* U of Section.forces
forces_U(sec, ind, v_inf, omega) ==
    LET C == Fl(sec.C)
        v == FMul(FAdd(Fl(1), FMul(C, ind[1])), v_inf)
        vp == FMul(FMul(FSub(Fl(1), FMul(C, ind[2])), omega), sec.radius)
    IN  FSqrt(FAdd(FMul(v, v), FMul(vp, vp)))

\* the fields Section.forces stores, for the values of F, <<CT, CQ>> and U
forces_store(sec, F, c, U, fluid) ==
    LET r == sec.radius
        q == FMul(FMul(FMul(sec.sigma, PiF), fluid.rho), FMul(U, U))
    IN  [sec EXCEPT !.F = F,
                    !.Re = PyDiv(FMul(FMul(fluid.rho, U), sec.chord), fluid.mu),
                    !.dT = FMul(FMul(FMul(q, c[1]), r), sec.width),
                    !.dQ = FMul(FMul(FMul(q, c[2]), FMul(r, r)), sec.width)]

\* Section.forces, for the value ind of self.induction_factors(phi)
forces_of(sec, ind, c, v_inf, omega, fluid) ==
    forces_store(sec, ind[3], c, forces_U(sec, ind, v_inf, omega), fluid)

\* Section.forces: the section with Re, dT, dQ (and F) stored; it returns
\* (self.dT, self.dQ)
forces(rot, sec, phi, v_inf, omega, fluid) ==
    forces_of(sec, forces_induction(rot, sec, phi), airfoil_forces(sec, phi),
              v_inf, omega, fluid)

\* ------------------------------------------------------------ root finding

\* the bracket of the bisection, 0.01*pi and 0.9*pi
BracketLo == AngPi \div 100
BracketHi == (9 * AngPi) \div 10

\* the value that stands for a NaN residual in brute_solve (1e30 in the
\* source: a finite value far above any residual of a well-posed section and
\* below the largest finite value)
Sentinel == 1000000

\* the grid size of brute_solve (n=3600 in the source)
BruteN == 8

\* np.linspace(-0.9*np.pi, 0.9*np.pi, n)[i-1], i in 1..n
phis(n, i) ==
    IF n = 1 THEN -BracketHi
    ELSE -BracketHi + ((i - 1) * 2 * BracketHi) \div (n - 1)

\* resid[i] of brute_solve: the residual, or the sentinel for a NaN
brute_resid(res) == IF ~IsNaN(res) THEN res ELSE Sentinel

\* np.argmin of a sequence without NaN: the first index of a least value
argmin(xs) ==
    CHOOSE i \in 1..Len(xs) :
        /\ \A j \in 1..Len(xs) : xs[i] <= xs[j]
        /\ \A j \in 1..(i - 1) : xs[j] > xs[i]

\* a variant of the selection without abs
argmin_signed(resid) == argmin(resid)

\* i = np.argmin(abs(resid))
argmin_abs(resid) == argmin([k \in 1..Len(resid) |-> FAbs(resid[k])])

\* res of every iteration of the loop of Solver.brute_solve
brute_res(rot, sec, v, omega, n) ==
    [i \in 1..n |-> func(rot, sec, phis(n, i), v, omega).resid]

\* resid of Solver.brute_solve after its loop
brute_grid(res) == [i \in 1..Len(res) |-> brute_resid(res[i])]

\* the end of Solver.brute_solve, for the residuals res that sec.func
\* returned: the angle returned, the last angle sec.func was called with, and
\* the residuals themselves
brute_pick(n, res) ==
    [phi |-> phis(n, argmin_abs(brute_grid(res))), last |-> phis(n, n), res |-> res]

\* Solver.brute_solve
brute_solve(rot, sec, v, omega, n) == brute_pick(n, brute_res(rot, sec, v, omega, n))

\* the sign of the float product x*y: 1, -1, 0, or NaN
ProdSign(x, y) ==
    IF IsNaN(x) \/ IsNaN(y) THEN NaN
    ELSE IF (x = 0 /\ ~IsFinite(y)) \/ (y = 0 /\ ~IsFinite(x)) THEN NaN
    ELSE Sgn(x) * Sgn(y)

\* what bisect returns or raises, the last angle f was called with, and the
\* residuals at the ends of the bracket
BisectResult(kind, phi, last, fa, fb) ==
    [kind |-> kind, phi |-> phi, last |-> last, fa |-> fa, fb |-> fb]

\* scipy.optimize.bisect(f, a, b, args): the loop of the library.  dm is
\* halved until it is below the resolution of an angle; the library's own
\* tolerance is reached well before its 100 iterations.  A build of the
\* library that wraps f (nan_raises) raises ValueError at the first NaN.
RECURSIVE bisect_loop(_, _, _, _, _, _, _, _, _)
bisect_step(rot, sec, v, omega, xa, dm, xm, fa, fb, fm, nan_raises) ==
    IF nan_raises /\ IsNaN(fm) THEN BisectResult("ValueError", 0, xm, fa, fb)
    ELSE IF fm = 0 \/ dm < 1 THEN BisectResult("root", xm, xm, fa, fb)
    ELSE bisect_loop(rot, sec, v, omega,
                     IF ProdSign(fm, fa) \in {0, 1} THEN xm ELSE xa,
                     dm, fa, fb, nan_raises)

bisect_loop(rot, sec, v, omega, xa, dm0, fa, fb, nan_raises) ==
    bisect_step(rot, sec, v, omega, xa, dm0 \div 2, xa + (dm0 \div 2), fa, fb,
                func(rot, sec, xa + (dm0 \div 2), v, omega).resid, nan_raises)

\* the checks of bisect on the residuals fa, fb at the ends of the bracket
bisect_ends(rot, sec, a, b, v, omega, fa, fb, nan_raises) ==
    IF nan_raises /\ IsNaN(fa) THEN BisectResult("ValueError", 0, a, fa, fb)
    ELSE IF nan_raises /\ IsNaN(fb) THEN BisectResult("ValueError", 0, b, fa, fb)
    ELSE IF ProdSign(fa, fb) = 1 THEN BisectResult("ValueError", 0, b, fa, fb)
    ELSE IF fa = 0 THEN BisectResult("root", a, b, fa, fb)
    ELSE IF fb = 0 THEN BisectResult("root", b, b, fa, fb)
    ELSE bisect_loop(rot, sec, v, omega, a, b - a, fa, fb, nan_raises)

bisect(rot, sec, a, b, v, omega, nan_raises) ==
    bisect_ends(rot, sec, a, b, v, omega, func(rot, sec, a, v, omega).resid,
                func(rot, sec, b, v, omega).resid, nan_raises)

\* ------------------------------------------------------------------- Rotor

\* Rotor.precalc
rotor_precalc(rot) ==
    LET R == FMul(Scale \div 2, rot.diameter)
    IN  [rot EXCEPT !.blade_radius = R, !.area = FMul(PiF, FMul(R, R))]

\* Rotor.__init__ for a configuration without the 'dr' option: every width is
\* r[1] - r[0]; the pitch list of the configuration is in degrees
Rotor(n_blades, diameter, radius_hub, airfoil, radii, chord, pitch_deg, mode) ==
    rotor_precalc(
        [n_blades |-> n_blades, diameter |-> diameter, radius_hub |-> radius_hub,
         blade_radius |-> 0, area |-> 0,
         sections |-> [i \in 1..Len(radii) |->
             Section(airfoil, radii[i], FSub(radii[2], radii[1]),
                     Radians(pitch_deg[i]), chord, n_blades, mode)]])

\* the columns of Rotor.sections_dataframe
Columns == {"radius", "chord", "pitch", "Cl", "Cd", "dT", "dQ", "F", "a", "ap", "Re"}

\* Rotor.sections_dataframe: one row per section
sections_dataframe(rot) ==
    [i \in 1..Len(rot.sections) |-> [c \in Columns |-> rot.sections[i][c]]]

\* ------------------------------------------------------------------ Solver

\* omega = rpm*2*pi/60.0
omega_of(rpm) == FDiv(FMul(FMul(rpm, Fl(2)), PiF), Fl(60))

\* a variant of the inflow rule that includes the edge of the inflow disk
inflow_v_closed(sec, v_inflow, r_inflow) ==
    IF FLe(sec.radius, r_inflow) THEN v_inflow ELSE 0

\* the inflow velocity Solver.solve gives a section
inflow_v(sec, v_inflow, r_inflow) ==
    IF FLt(sec.radius, r_inflow) THEN v_inflow ELSE 0

\* if self.solver == 'brute'
uses_brute(solver) == solver = "brute"

\* a variant of the handler that catches another exception
caught_other(kind) == kind = "RuntimeError"

\* except ValueError
caught(kind) == kind = "ValueError"

\* P = Q*omega
solve_power(T, Q, omega) == FMul(Q, omega)

\* the argument of sqrt in Solver.slipstream
slipstream_arg(self, rot, fluid) ==
    FDiv(FMul(Fl(2), self.T), FMul(fluid.rho, rot.area))

\* math.sqrt raises ValueError (math domain error) below zero
sqrt_raises(x) == FLt(x, 0)

\* Solver.slipstream: <<r_s, v_s>>
slipstream(self, rot, fluid) ==
    <<FDiv(rot.blade_radius, FSqrt(Fl(2))),
      FMul(self.Cs, FSqrt(slipstream_arg(self, rot, fluid)))>>

\* Solver.rotor_coeffs: <<J, CT, CQ, CP, eta>>
rotor_coeffs(self, rot, fluid, T, Q, P) ==
    LET D == rot.diameter
        n == FDiv(self.rpm, Fl(60))
        J == FDiv(self.v_inf, FMul(n, D))
        n2 == FMul(n, n)
        D4 == FMul(FMul(FMul(D, D), D), D)
        CT == FDiv(T, FMul(FMul(fluid.rho, n2), D4))
        CQ == FDiv(Q, FMul(FMul(fluid.rho, n2), FMul(D4, D)))
        CP == FMul(FMul(Fl(2), PiF), CQ)
        eta == IF J = 0 THEN FDiv(CT, CP) ELSE FMul(FDiv(CT, CP), J)
    IN  <<J, CT, CQ, CP, eta>>

\* Solver.turbine_coeffs: <<TSR, CP, CT>>
turbine_coeffs(self, rot, fluid, T, Q, P) ==
    LET V == self.v_inf
        omega == omega_of(self.rpm)
        h == FMul(FMul(Scale \div 2, fluid.rho), rot.area)
    IN  <<FDiv(FMul(omega, rot.blade_radius), V),
          FDiv(P, FMul(h, FMul(FMul(V, V), V))),
          FDiv(T, FMul(h, FMul(V, V)))>>

\* np.linspace(low, high, n)[i], i in 0..n-1
linspace(low, high, n, i) ==
    IF n = 1 \/ i = 0 THEN low
    ELSE IF i = n - 1 THEN high
    ELSE FAdd(low, FMul(Fl(i), FDiv(FSub(high, low), Fl(n - 1))))

\* the columns of the table of Solver.run_sweep
sweep_columns(mode, coaxial, parameter) ==
    IF mode = "turbine" THEN <<parameter, "T", "Q", "P", "TSR", "CT", "CP">>
    ELSE IF coaxial
    THEN <<parameter, "T", "Q", "P", "J", "CT", "CQ", "CP", "eta",
           "CT2", "CQ2", "CP2", "eta2">>
    ELSE <<parameter, "T", "Q", "P", "J", "CT", "CQ", "CP", "eta">>

\* ------------------------------------------------------------------- state

VARIABLES
    self,        \* the attributes of the Solver
    rotor,       \* self.rotor
    rotor2,      \* self.rotor2 (no sections when the case is not coaxial)
    fluid,       \* self.fluid
    nan_raises,  \* whether the installed scipy raises ValueError at a NaN
    pc,          \* the place the program is at
    op,          \* the call in progress: "run", "sweep", "optimize", or "none"
    loc,         \* the local variables of Solver.solve
    sw,          \* the local variables of Solver.run_sweep
    opt,         \* the local variables of Solver.optimize_pitch
    ret,         \* what the last call returned or raised
    log,         \* history: the sections the solves of the current run visited
    calls,       \* history: the calls made so far
    tl           \* a call of Section.tip_loss on a section of its own

vars == <<self, rotor, rotor2, fluid, nan_raises, pc, op, loc, sw, opt, ret,
          log, calls, tl>>

\* bounds of the model
MaxCalls == 1
MaxSweepN == 2
MaxEvals == 2
MaxBlades == 3

\* ----------------------------------------------------------- configurations
\* The rotors of the configurations: two blades, diameter 2.0, hub radius 0.2,
\* chord 0.2, two sections.

Design(d, mode) ==
    CASE d = "inner" ->
            Rotor(2, Fl(2), 200, "const", <<400, 800>>, 200, <<10, 10>>, mode)
      [] d = "plate" ->
            Rotor(2, Fl(2), 200, "plate", <<400, 800>>, 200, <<18, 18>>, mode)
      [] d = "tip" ->
            Rotor(2, Fl(2), 200, "const", <<600, 1000>>, 200, <<10, 10>>, mode)
      [] d = "wake" ->
            Rotor(2, Fl(2), 200, "const", <<400, 707>>, 200, <<10, 10>>, mode)
      [] OTHER ->
            [n_blades |-> 0, diameter |-> 0, radius_hub |-> 0, blade_radius |-> 0,
             area |-> 0, sections |-> <<>>]

\* <<mode, solver, coaxial, rotor, rotor2, v_inf>>
Configs ==
    { <<"rotor",   "bisect", FALSE, "inner", "none", 0>>,
      <<"rotor",   "bisect", FALSE, "plate", "none", Fl(2)>>,
      <<"rotor",   "brute",  FALSE, "inner", "none", Fl(2)>>,
      <<"turbine", "bisect", FALSE, "inner", "none", 0>>,
      <<"turbine", "secant", FALSE, "plate", "none", Fl(2)>>,
      <<"rotor",   "bisect", TRUE,  "inner", "wake", 0>>,
      <<"rotor",   "bisect", TRUE,  "plate", "wake", Fl(2)>>,
      <<"rotor",   "bisect", FALSE, "tip",   "none", Fl(2)>>,
      <<"rotor",   "brute",  FALSE, "tip",   "none", 0>>,
      <<"turbine", "brute",  TRUE,  "inner", "wake", Fl(2)>> }

NoLoc == [k |-> 0, rpm |-> 0, v_inflow |-> 0, r_inflow |-> 0, omega |-> 0,
          T |-> 0, Q |-> 0, i |-> 0, v |-> 0, phi |-> 0]
NoSweep == [parameter |-> "", n |-> 0, low |-> 0, high |-> 0, i |-> 0, p |-> 0,
            rows |-> <<>>, sections |-> <<>>, logs |-> <<>>]
NoOpt == [x |-> <<>>, evals |-> 0, fun |-> 0, best |-> <<>>]
NoRet == [kind |-> "none", op |-> "none", exc |-> "", at |-> "", value |-> <<>>,
          df |-> <<>>, df2 |-> <<>>]
NoTipLoss == [state |-> "unused", n_blades |-> 0, radius |-> 0, phi |-> 0, F |-> 0,
              f |-> <<>>, sub |-> <<>>, exp |-> <<>>]

\* Solver.__init__ on a configuration file
SolverInit ==
    \E c \in Configs, nr \in BOOLEAN :
        /\ self = [v_inf |-> c[6], rpm |-> Fl(30), coaxial |-> c[3], mode |-> c[1],
                   solver |-> c[2], Cs |-> (5 * Scale) \div 8, rpm2 |-> Fl(30),
                   T |-> 0, Q |-> 0, P |-> 0, T2 |-> 0, Q2 |-> 0, P2 |-> 0,
                   r_s |-> 0, v_s |-> 0]
        /\ rotor = Design(c[4], c[1])
        /\ rotor2 = Design(c[5], c[1])
        /\ fluid = [rho |-> 1225, mu |-> 500]
        /\ nan_raises = nr
        /\ pc = "idle"
        /\ op = "none"
        /\ loc = NoLoc
        /\ sw = NoSweep
        /\ opt = NoOpt
        /\ ret = NoRet
        /\ log = <<>>
        /\ calls = 0

Init == SolverInit /\ tl = NoTipLoss

\* ------------------------------------------------------------------ actions

Rot(k) == IF k = 1 THEN rotor ELSE rotor2
CurSec == Rot(loc.k).sections[loc.i]

\* the rotors after section i of rotor k becomes sec
SetSection(k, i, sec) ==
    /\ rotor' = IF k = 1 THEN [rotor EXCEPT !.sections[i] = sec] ELSE rotor
    /\ rotor2' = IF k = 2 THEN [rotor2 EXCEPT !.sections[i] = sec] ELSE rotor2

\* an exception nothing catches ends the call in progress
Raise(exc, at) ==
    /\ ret' = [NoRet EXCEPT !.kind = "raised", !.op = op, !.exc = exc, !.at = at]
    /\ pc' = "idle"
    /\ op' = "none"

\* the locals of Solver.solve(rotor k, rpm, v_inflow, r_inflow) at its loop
solve_begin(k, rpm, v_inflow, r_inflow) ==
    [k |-> k, rpm |-> rpm, v_inflow |-> v_inflow, r_inflow |-> r_inflow,
     omega |-> omega_of(rpm), T |-> 0, Q |-> 0, i |-> 1, v |-> 0, phi |-> 0]

\* a caller invokes Solver.run
CallRun ==
    /\ pc = "idle" /\ calls < MaxCalls
    /\ pc' = "run" /\ op' = "run" /\ calls' = calls + 1 /\ ret' = NoRet
    /\ sw' = NoSweep /\ opt' = NoOpt
    /\ UNCHANGED <<self, rotor, rotor2, fluid, nan_raises, loc, log, tl>>

\* Solver.run calls self.solve(self.rotor, self.rpm, self.v_inf,
\* self.rotor.diameter): rotor.precalc() and the start of the loop
RunSolvePrimary ==
    /\ pc = "run"
    /\ rotor' = rotor_precalc(rotor)
    /\ loc' = solve_begin(1, self.rpm, self.v_inf, rotor.diameter)
    /\ log' = <<>>
    /\ pc' = "section"
    /\ UNCHANGED <<self, rotor2, fluid, nan_raises, op, sw, opt, ret, calls, tl>>

\* Solver.solve: the next section, its inflow velocity and its solver
SolveSection ==
    /\ pc = "section" /\ loc.i <= Len(Rot(loc.k).sections)
    /\ LET v == inflow_v(CurSec, loc.v_inflow, loc.r_inflow)
       IN  /\ loc' = [loc EXCEPT !.v = v, !.phi = 0]
           /\ log' = Append(log, [k |-> loc.k, i |-> loc.i, v |-> v, trace |-> <<>>,
                                  bracket_failed |-> FALSE, nonfinite_end |-> FALSE,
                                  res |-> <<>>, phi |-> 0, dT |-> 0, dQ |-> 0,
                                  done |-> FALSE])
    /\ pc' = IF uses_brute(self.solver) THEN "brute" ELSE "bisect"
    /\ UNCHANGED <<self, rotor, rotor2, fluid, nan_raises, op, sw, opt, ret, calls, tl>>

\* Solver.solve: optimize.bisect(sec.func, 0.01*pi, 0.9*pi, args=(v, omega))
\* inside try ... except ValueError
SolveBisect ==
    /\ pc = "bisect"
    /\ \E b \in {bisect(Rot(loc.k), CurSec, BracketLo, BracketHi, loc.v, loc.omega,
                         nan_raises)} :
          /\ SetSection(loc.k, loc.i,
                        func(Rot(loc.k), CurSec, b.last, loc.v, loc.omega).sec)
          /\ log' = [log EXCEPT
                        ![Len(log)].trace = Append(@, "bisect"),
                        ![Len(log)].bracket_failed = (b.kind # "root"),
                        ![Len(log)].nonfinite_end =
                            (~IsFinite(b.fa) \/ ~IsFinite(b.fb))]
          /\ IF b.kind = "root"
             THEN /\ loc' = [loc EXCEPT !.phi = b.phi]
                  /\ pc' = "forces"
                  /\ UNCHANGED <<op, ret>>
             ELSE IF caught(b.kind)
             THEN /\ pc' = "brute"
                  /\ UNCHANGED <<loc, op, ret>>
             ELSE /\ Raise(b.kind, "bisect")
                  /\ UNCHANGED loc
    /\ UNCHANGED <<self, fluid, nan_raises, sw, opt, calls, tl>>

\* Solver.solve: phi = self.brute_solve(sec, v, omega), in 'brute' mode or
\* after bisect raised ValueError
SolveBrute ==
    /\ pc = "brute"
    /\ \E b \in {brute_solve(Rot(loc.k), CurSec, loc.v, loc.omega, BruteN)} :
          /\ SetSection(loc.k, loc.i,
                        func(Rot(loc.k), CurSec, b.last, loc.v, loc.omega).sec)
          /\ loc' = [loc EXCEPT !.phi = b.phi]
          /\ log' = [log EXCEPT ![Len(log)].trace = Append(@, "brute"),
                                ![Len(log)].res = b.res]
    /\ pc' = "forces"
    /\ UNCHANGED <<self, fluid, nan_raises, op, sw, opt, ret, calls, tl>>

\* Solver.solve: dT, dQ = sec.forces(phi, v, omega, self.fluid); T += dT; Q += dQ
SolveForces ==
    /\ pc = "forces"
    /\ \E sec \in {forces(Rot(loc.k), CurSec, loc.phi, loc.v, loc.omega, fluid)} :
          /\ SetSection(loc.k, loc.i, sec)
          /\ loc' = [loc EXCEPT !.T = FAdd(@, sec.dT), !.Q = FAdd(@, sec.dQ),
                                !.i = @ + 1]
          /\ log' = [log EXCEPT ![Len(log)].phi = loc.phi,
                                ![Len(log)].dT = sec.dT,
                                ![Len(log)].dQ = sec.dQ,
                                ![Len(log)].done = TRUE]
    /\ pc' = "section"
    /\ UNCHANGED <<self, fluid, nan_raises, op, sw, opt, ret, calls, tl>>

\* Solver.solve returns T, Q, P; Solver.run stores them
SolveReturn ==
    /\ pc = "section" /\ loc.i > Len(Rot(loc.k).sections)
    /\ LET P == solve_power(loc.T, loc.Q, loc.omega)
       IN  IF loc.k = 1
           THEN /\ self' = [self EXCEPT !.T = loc.T, !.Q = loc.Q, !.P = P]
                /\ pc' = "solved"
           ELSE /\ self' = [self EXCEPT !.T2 = loc.T, !.Q2 = loc.Q, !.P2 = P]
                /\ pc' = "return"
    /\ UNCHANGED <<rotor, rotor2, fluid, nan_raises, op, loc, sw, opt, ret, log,
                   calls, tl>>

\* Solver.run, not coaxial
RunSingle ==
    /\ pc = "solved" /\ ~self.coaxial
    /\ pc' = "return"
    /\ UNCHANGED <<self, rotor, rotor2, fluid, nan_raises, op, loc, sw, opt, ret,
                   log, calls, tl>>

\* Solver.run, coaxial: self.slipstream(), then self.solve(self.rotor2,
\* self.rpm2, self.v_s, self.r_s) starts
RunCoaxial ==
    /\ pc = "solved" /\ self.coaxial
    /\ ~sqrt_raises(slipstream_arg(self, rotor, fluid))
    /\ LET s == slipstream(self, rotor, fluid)
       IN  /\ self' = [self EXCEPT !.r_s = s[1], !.v_s = s[2]]
           /\ loc' = solve_begin(2, self.rpm2, s[2], s[1])
    /\ rotor2' = rotor_precalc(rotor2)
    /\ pc' = "section"
    /\ UNCHANGED <<rotor, fluid, nan_raises, op, sw, opt, ret, log, calls, tl>>

\* Solver.run, coaxial: sqrt in self.slipstream() raises ValueError
RunCoaxialRaises ==
    /\ pc = "solved" /\ self.coaxial
    /\ sqrt_raises(slipstream_arg(self, rotor, fluid))
    /\ Raise("ValueError", "slipstream")
    /\ UNCHANGED <<self, rotor, rotor2, fluid, nan_raises, loc, sw, opt, log,
                   calls, tl>>

\* the tuple Solver.run returns
run_value ==
    IF self.coaxial THEN <<self.T, self.Q, self.P, self.T2, self.Q2, self.P2>>
    ELSE <<self.T, self.Q, self.P>>

\* Solver.run returns to its caller
RunReturn ==
    /\ pc = "return"
    /\ ret' = [kind |-> "return", op |-> "run", exc |-> "", at |-> "",
               value |-> run_value,
               df |-> sections_dataframe(rotor),
               df2 |-> IF self.coaxial THEN sections_dataframe(rotor2) ELSE <<>>]
    /\ pc' = CASE op = "sweep" -> "sweep_row"
               [] op = "optimize" -> "objective"
               [] OTHER -> "idle"
    /\ op' = IF op = "run" THEN "none" ELSE op
    /\ UNCHANGED <<self, rotor, rotor2, fluid, nan_raises, loc, sw, opt, log,
                   calls, tl>>

\* ---------------------------------------------------------------- run_sweep

\* the values run_sweep is called with in the model
SweepRange(parameter) ==
    IF parameter = "rpm" THEN <<Fl(30), Fl(60)>> ELSE <<0, Fl(2)>>

\* the number of values Solver.run returns: T, Q, P, df (, T2, Q2, P2, df2)
run_arity(value) == Len(value) + (Len(value) \div 3)

\* setattr(self, parameter, p)
setattr(obj, parameter, p) == [obj EXCEPT ![parameter] = p]

\* the body of the loop of run_sweep after self.run() has returned value:
\* the row stored by df.iloc[i] = [...], or the exception raised
sweep_row(slf, rot, rot2, fl, p, value) ==
    IF slf.mode = "turbine"
    THEN IF run_arity(value) # 4 THEN [exc |-> "ValueError", at |-> "unpack", row |-> <<>>]
         ELSE LET c == turbine_coeffs(slf, rot, fl, value[1], value[2], value[3])
              IN  [exc |-> "", at |-> "",
                   row |-> <<p, value[1], value[2], value[3], c[1], c[3], c[2]>>]
    ELSE IF slf.coaxial
    THEN IF run_arity(value) # 8 THEN [exc |-> "ValueError", at |-> "unpack", row |-> <<>>]
         ELSE [exc |-> "NameError", at |-> "eta2", row |-> <<>>]
    ELSE IF run_arity(value) # 4 THEN [exc |-> "ValueError", at |-> "unpack", row |-> <<>>]
         ELSE LET c == rotor_coeffs(slf, rot, fl, value[1], value[2], value[3])
              IN  [exc |-> "", at |-> "",
                   row |-> <<p, value[1], value[2], value[3]>> \o c]

\* a caller invokes Solver.run_sweep(parameter, n, low, high)
CallRunSweep ==
    /\ pc = "idle" /\ calls < MaxCalls
    /\ \E parameter \in {"rpm", "v_inf"}, n \in 1..MaxSweepN :
          sw' = [NoSweep EXCEPT !.parameter = parameter, !.n = n,
                                !.low = SweepRange(parameter)[1],
                                !.high = SweepRange(parameter)[2]]
    /\ pc' = "sweep" /\ op' = "sweep" /\ calls' = calls + 1 /\ ret' = NoRet
    /\ opt' = NoOpt
    /\ UNCHANGED <<self, rotor, rotor2, fluid, nan_raises, loc, log, tl>>

\* run_sweep: the next value of the parameter is set and self.run() is called
SweepIter ==
    /\ pc = "sweep" /\ sw.i < sw.n
    /\ LET p == linspace(sw.low, sw.high, sw.n, sw.i)
       IN  /\ self' = setattr(self, sw.parameter, p)
           /\ sw' = [sw EXCEPT !.p = p]
    /\ pc' = "run"
    /\ UNCHANGED <<rotor, rotor2, fluid, nan_raises, op, loc, opt, ret, log, calls,
                   tl>>

\* run_sweep: the row of this value is stored
SweepRow ==
    /\ pc = "sweep_row"
    /\ LET r == sweep_row(self, rotor, rotor2, fluid, sw.p, ret.value)
       IN  /\ r.exc = ""
           /\ Len(r.row) = Len(sweep_columns(self.mode, self.coaxial, sw.parameter))
           /\ sw' = [sw EXCEPT !.rows = Append(@, r.row),
                               !.sections = Append(@, ret.df),
                               !.logs = Append(@, log), !.i = @ + 1]
    /\ pc' = "sweep"
    /\ UNCHANGED <<self, rotor, rotor2, fluid, nan_raises, op, loc, opt, ret, log,
                   calls, tl>>

\* run_sweep: building the row raises
SweepRowRaises ==
    /\ pc = "sweep_row"
    /\ LET r == sweep_row(self, rotor, rotor2, fluid, sw.p, ret.value)
       IN  /\ r.exc # ""
           /\ Raise(r.exc, r.at)
    /\ UNCHANGED <<self, rotor, rotor2, fluid, nan_raises, loc, sw, opt, log, calls,
                   tl>>

\* run_sweep returns df, sections
SweepReturn ==
    /\ pc = "sweep" /\ sw.i = sw.n
    /\ ret' = [kind |-> "return", op |-> "sweep", exc |-> "", at |-> "",
               value |-> sw.rows, df |-> sw.sections, df2 |-> <<>>]
    /\ pc' = "idle" /\ op' = "none"
    /\ UNCHANGED <<self, rotor, rotor2, fluid, nan_raises, loc, sw, opt, log, calls,
                   tl>>

\* ----------------------------------------------------------- optimize_pitch

\* pitch vectors, in degrees within the bounds (0, 30), that
\* differential_evolution passes to run_bemt
Candidates == {<<5, 5>>, <<30, 15>>}

\* run_bemt: for sec, pitch in zip(self.rotor.sections, x): sec.pitch = radians(pitch)
set_pitches(rot, x) ==
    [rot EXCEPT !.sections = [i \in 1..Len(rot.sections) |->
        IF i <= Len(x) THEN [rot.sections[i] EXCEPT !.pitch = Radians(x[i])]
        ELSE rot.sections[i]]]

\* run_bemt after self.run() has returned value: the objective, or the
\* exception of T,Q,P,df = self.run()
objective(slf, value) ==
    IF run_arity(value) # 4 THEN [exc |-> "ValueError", fun |-> 0]
    ELSE IF slf.mode = "turbine" THEN [exc |-> "", fun |-> FNeg(value[3])]
    ELSE [exc |-> "", fun |-> FNeg(value[1])]

\* a caller invokes Solver.optimize_pitch
CallOptimize ==
    /\ pc = "idle" /\ calls < MaxCalls
    /\ opt' = NoOpt
    /\ pc' = "evolve" /\ op' = "optimize" /\ calls' = calls + 1 /\ ret' = NoRet
    /\ sw' = NoSweep
    /\ UNCHANGED <<self, rotor, rotor2, fluid, nan_raises, loc, log, tl>>

\* differential_evolution calls run_bemt(x): the pitches are set and self.run()
\* is called
OptPropose ==
    /\ pc = "evolve" /\ opt.evals < MaxEvals
    /\ \E x \in Candidates :
          /\ rotor' = set_pitches(rotor, x)
          /\ opt' = [opt EXCEPT !.x = x]
    /\ pc' = "run"
    /\ UNCHANGED <<self, rotor2, fluid, nan_raises, op, loc, sw, ret, log, calls, tl>>

\* run_bemt returns the objective to differential_evolution
OptObjective ==
    /\ pc = "objective"
    /\ LET o == objective(self, ret.value)
       IN  /\ o.exc = ""
           /\ opt' = [opt EXCEPT
                         !.evals = @ + 1, !.fun = o.fun,
                         !.best = IF opt.evals = 0 \/ FLt(o.fun, opt.best[2])
                                  THEN <<opt.x, o.fun>> ELSE @]
    /\ pc' = "evolve"
    /\ UNCHANGED <<self, rotor, rotor2, fluid, nan_raises, op, loc, sw, ret, log,
                   calls, tl>>

\* run_bemt raises at T,Q,P,df = self.run()
OptObjectiveRaises ==
    /\ pc = "objective"
    /\ LET o == objective(self, ret.value)
       IN  /\ o.exc # ""
           /\ Raise(o.exc, "unpack")
    /\ UNCHANGED <<self, rotor, rotor2, fluid, nan_raises, loc, sw, opt, log, calls,
                   tl>>

\* differential_evolution stops and optimize_pitch returns its result
OptReturn ==
    /\ pc = "evolve" /\ opt.evals >= 1
    /\ ret' = [kind |-> "return", op |-> "optimize", exc |-> "", at |-> "",
               value |-> opt.best, df |-> <<>>, df2 |-> <<>>]
    /\ pc' = "idle" /\ op' = "none"
    /\ UNCHANGED <<self, rotor, rotor2, fluid, nan_raises, loc, sw, opt, log, calls,
                   tl>>

Next ==
    \/ CallRun \/ RunSolvePrimary \/ SolveSection \/ SolveBisect \/ SolveBrute
    \/ SolveForces \/ SolveReturn \/ RunSingle \/ RunCoaxial \/ RunCoaxialRaises
    \/ RunReturn
    \/ CallRunSweep \/ SweepIter \/ SweepRow \/ SweepRowRaises \/ SweepReturn
    \/ CallOptimize \/ OptPropose \/ OptObjective \/ OptObjectiveRaises
    \/ OptReturn

Spec == Init /\ [][Next]_vars

\* ------------------------------------------------------------------ tip loss
\* Section.tip_loss on its own: a section at any radius of the blade of a
\* rotor of diameter 2.0 and hub radius 0.2, called with any angle.

TipRadii == {200, 400, 600, 800, 1000}
TipPhis == {0, 3, 18, 450, 900, 1350, 1620, 1797, -3, -18, -900}

\* whether prandtl evaluates exp for the value f
prandtl_calls_exp(f) == ~Raised(f) /\ ~prandtl_guard(f)

TipRotor(n_blades, radius) ==
    Rotor(n_blades, Fl(2), 200, "const", <<radius, radius + 200>>, 200, <<10, 10>>,
          "rotor")

InitTip ==
    /\ SolverInit
    /\ \E n \in 1..MaxBlades, r \in TipRadii, phi \in TipPhis :
          tl = [NoTipLoss EXCEPT !.state = "call", !.n_blades = n, !.radius = r,
                                 !.phi = phi]

\* sec.tip_loss(phi): the value returned, with the f and the value of the two
\* calls of prandtl (tip, hub) and whether each evaluated exp
TipLossCall ==
    /\ tl.state = "call"
    /\ \E rot \in {TipRotor(tl.n_blades, tl.radius)} :
       \E f \in {<<prandtl_f(rot.n_blades, FSub(rot.blade_radius, tl.radius),
                              tl.radius, tl.phi),
                    prandtl_f(rot.n_blades, FSub(tl.radius, rot.radius_hub),
                              tl.radius, tl.phi)>>} :
          tl' = [tl EXCEPT
                   !.state = "returned",
                   !.F = tip_loss(rot, rot.sections[1], tl.phi),
                   !.f = IF tl.phi = 0 THEN <<>> ELSE f,
                   !.sub = IF tl.phi = 0 THEN <<>>
                           ELSE <<prandtl_of(f[1]), prandtl_of(f[2])>>,
                   !.exp = IF tl.phi = 0 THEN <<>>
                           ELSE <<prandtl_calls_exp(f[1]), prandtl_calls_exp(f[2])>>]
    /\ UNCHANGED <<self, rotor, rotor2, fluid, nan_raises, pc, op, loc, sw, opt, ret,
                   log, calls>>

NextTip == TipLossCall

SpecTip == InitTip /\ [][NextTip]_vars

\* --------------------------------------------------------------- properties

Last(seq) == seq[Len(seq)]

\* the float sum, in order, of field f of the entries of a log
RECURSIVE SumOf(_, _)
SumOf(entries, f) ==
    IF entries = <<>> THEN 0
    ELSE FAdd(SumOf(SubSeq(entries, 1, Len(entries) - 1), f), Last(entries)[f])

EntriesOf(k) == SelectSeq(log, LAMBDA e : e.k = k)

\* a solve of Solver.run is in progress or run is about to return
InRun == pc \in {"section", "bisect", "brute", "forces", "solved", "return"}

AllDone == \A j \in 1..Len(log) : log[j].done

\* C1: in a mode other than 'brute' every section is first attempted with
\* bisection; brute_solve runs for a section only after the bisection of that
\* section signalled a bracket failure; the failure never ends the solve; the
\* forces of every section are computed whichever way its phi was found; in
\* 'brute' mode bisection is never attempted.
C1_BisectionThenBruteFallback ==
    /\ \A j \in 1..Len(log) :
          LET e == log[j]
          IN  /\ j < Len(log) => e.done
              /\ IF self.solver = "brute"
                 THEN /\ e.trace \in {<<>>, <<"brute">>}
                      /\ e.done => e.trace = <<"brute">>
                 ELSE /\ e.trace \in {<<>>, <<"bisect">>, <<"bisect", "brute">>}
                      /\ e.trace = <<"bisect", "brute">> => e.bracket_failed
                      /\ e.done => e.trace = IF e.bracket_failed
                                             THEN <<"bisect", "brute">>
                                             ELSE <<"bisect">>
    /\ pc = "brute" /\ self.solver # "brute" => Last(log).bracket_failed
    /\ pc \in {"solved", "return"} => AllDone
    /\ ret.kind = "raised" => ret.at # "bisect"

\* C1: a section fell back to brute force, its forces were computed, and a
\* later section of the same rotor was attempted with bisection and finished
C1_FallbackThenBisectionAgain ==
    \E i, j \in 1..Len(log) :
        /\ i < j /\ log[i].k = log[j].k
        /\ log[i].trace = <<"bisect", "brute">> /\ log[i].done
        /\ log[j].trace # <<>> /\ log[j].trace[1] = "bisect" /\ log[j].done

\* the magnitude of a residual as brute_solve records it: 1e30 for a NaN
Recorded(x) == IF IsNaN(x) THEN Sentinel ELSE FAbs(x)

\* the entries of the log whose phi brute_solve returned
BruteEntries == {j \in 1..Len(log) : log[j].done /\ log[j].res # <<>>}

\* the index of the grid point brute_solve returned for entry j
GridIndex(j) == CHOOSE i \in 1..BruteN : log[j].phi = phis(BruteN, i)

\* C2 (as amended): brute_solve returns a point of its grid, and the magnitude
\* recorded for the returned point (1e30 where the residual is NaN) is at most
\* the magnitude recorded for every other grid point.
C2_BruteReturnsLeastRecorded ==
    \A j \in BruteEntries :
        /\ Len(log[j].res) = BruteN
        /\ \E i \in 1..BruteN : log[j].phi = phis(BruteN, i)
        /\ \A m \in 1..BruteN :
              Recorded(log[j].res[GridIndex(j)]) <= Recorded(log[j].res[m])

\* C2 (as stated): brute_solve returns a point of its grid, and the residual
\* magnitude at the returned phi is less than or equal to the residual
\* magnitude at every other grid point (every one whose residual is a number).
C2_BruteReturnsLeastResidual ==
    \A j \in BruteEntries :
        /\ \E i \in 1..BruteN : log[j].phi = phis(BruteN, i)
        /\ \A m \in 1..BruteN :
              ~IsNaN(log[j].res[m])
                  => FLe(FAbs(log[j].res[GridIndex(j)]), FAbs(log[j].res[m]))

\* C2: brute_solve returned a point whose residual is NaN while the residual
\* of another grid point is infinite
C2_NaNPointReturned ==
    \E j \in BruteEntries :
        /\ IsNaN(log[j].res[GridIndex(j)])
        /\ \E m \in 1..BruteN : log[j].res[m] \in {PInf, NInf}

\* v_inflow and r_inflow of the solve of rotor k
InflowOf(k) == IF k = 1 THEN <<self.v_inf, rotor.diameter>> ELSE <<self.v_s, self.r_s>>

\* C3: solve visits the sections of its rotor once each and in order; a
\* section gets v_inflow if its radius is strictly below r_inflow and 0
\* otherwise; T and Q are the sums of the dT and dQ of this call, and P is
\* Q*omega for the rpm of this call.
C3_SolveVisitsEachSectionAndSums ==
    /\ InRun =>
          \A j \in 1..Len(log) :
              LET e == log[j]
                  sec == Rot(e.k).sections[e.i]
              IN  /\ j = e.i + (IF e.k = 2 THEN Len(rotor.sections) ELSE 0)
                  /\ e.v = IF sec.radius < InflowOf(e.k)[2] THEN InflowOf(e.k)[1]
                           ELSE 0
    /\ pc = "solved" =>
          /\ Len(log) = Len(rotor.sections)
          /\ self.T = SumOf(EntriesOf(1), "dT")
          /\ self.Q = SumOf(EntriesOf(1), "dQ")
          /\ self.P = FMul(self.Q, omega_of(self.rpm))
    /\ pc = "return" /\ self.coaxial =>
          /\ Len(log) = Len(rotor.sections) + Len(rotor2.sections)
          /\ self.T2 = SumOf(EntriesOf(2), "dT")
          /\ self.Q2 = SumOf(EntriesOf(2), "dQ")
          /\ self.P2 = FMul(self.Q2, omega_of(self.rpm2))

\* C3: a coaxial run has returned whose secondary rotor has a section exactly
\* at the inflow radius, solved with 0, and a section inside it, solved with
\* the slipstream velocity
C3_SectionAtInflowRadius ==
    /\ pc = "return" /\ self.coaxial /\ self.v_s # 0
    /\ \E i, j \in 1..Len(log) :
          /\ log[i].k = 2 /\ rotor2.sections[log[i].i].radius = self.r_s
          /\ log[i].v = 0
          /\ log[j].k = 2 /\ log[j].v = self.v_s

\* C4: a coaxial run completes, with results for both rotors, whatever thrust
\* the primary solve produced: it never ends in the slipstream computation.
C4_CoaxialRunCompletes == ~(ret.kind = "raised" /\ ret.at = "slipstream")

\* C5: in every mode, once run has returned to an iteration of run_sweep the
\* iteration stores a row whose entries match the columns of the table.
C5_SweepStoresEveryRow ==
    pc = "sweep_row" =>
        LET r == sweep_row(self, rotor, rotor2, fluid, sw.p, ret.value)
        IN  /\ r.exc = ""
            /\ Len(r.row) = Len(sweep_columns(self.mode, self.coaxial, sw.parameter))

\* C6: when the solves of a run have returned, the row sections_dataframe
\* gives for a section holds the a, a', F, Cl, Cd, dT and dQ evaluated at the
\* phi chosen for that section in this run.
C6_ReportedFieldsAtSolvedPhi ==
    pc = "return" =>
        \A j \in 1..Len(log) :
            LET e == log[j]
                sec == Rot(e.k).sections[e.i]
                row == sections_dataframe(Rot(e.k))[e.i]
                ind == induction_factors(Rot(e.k), sec, e.phi)
            IN  /\ row.dT = e.dT /\ row.dQ = e.dQ
                /\ row.a = ind[1] /\ row.ap = ind[2] /\ row.F = ind[3]
                /\ row.Cl = Cl(sec.airfoil, airfoil_alpha(sec, e.phi))
                /\ row.Cd = Cd(sec.airfoil, airfoil_alpha(sec, e.phi))

\* C7 (as amended): tip_loss returns exactly 1.0 at phi == 0; for phi in
\* (0, pi), a blade count >= 1 and a radius in [radius_hub, blade_radius] it
\* returns a finite F with 0 <= F <= 1, which is 0 at radius == radius_hub and
\* at radius == blade_radius; a Prandtl sub-factor whose f has -f > 500 is
\* exactly 1.0 and exp is not evaluated for it.
C7_TipLossInClosedUnitRange ==
    tl.state = "returned" =>
        /\ tl.phi = 0 => tl.F = Fl(1)
        /\ tl.phi \in 1..(AngPi - 1) =>
              /\ IsFinite(tl.F) /\ 0 <= tl.F /\ tl.F <= Fl(1)
              /\ tl.radius \in {200, 1000} => tl.F = 0
        /\ \A j \in 1..Len(tl.f) :
              (IsFinite(tl.f[j]) /\ -tl.f[j] > Fl(500))
                  => tl.sub[j] = Fl(1) /\ ~tl.exp[j]

\* C7 (as stated): for phi in (0, pi) and a radius in the closed range
\* [radius_hub, blade_radius], F is finite with 0 < F <= 1.
C7_TipLossPositive ==
    (tl.state = "returned" /\ tl.phi \in 1..(AngPi - 1)) =>
        IsFinite(tl.F) /\ 0 < tl.F /\ tl.F <= Fl(1)

\* C7: tip_loss has returned 0 for a section at the blade radius and an angle
\* in (0, pi)
C7_ZeroAtBladeRadius ==
    /\ tl.state = "returned" /\ tl.phi \in 1..(AngPi - 1)
    /\ tl.radius = 1000 /\ tl.F = 0

\* a section as Section.__init__ leaves it
FreshSection(sec) ==
    [sec EXCEPT !.a = 0, !.ap = 0, !.Re = 0, !.dT = 0, !.dQ = 0, !.F = 0,
                !.Cl = 0, !.Cd = 0]

\* the phi Solver.solve finds for a section
FreshPhi(rot, sec, v, omega) ==
    IF self.solver = "brute" THEN brute_solve(rot, sec, v, omega, BruteN).phi
    ELSE CHOOSE phi \in
             {IF b.kind = "root" THEN b.phi
              ELSE brute_solve(rot, sec, v, omega, BruteN).phi :
                  b \in {bisect(rot, sec, BracketLo, BracketHi, v, omega,
                                nan_raises)}} : TRUE

\* (dT, dQ) of Section.forces at the phi found for section i of rot
FreshForces(rot, i, v, omega) ==
    CHOOSE d \in
        {<<f.dT, f.dQ>> :
            f \in {forces(rot, FreshSection(rot.sections[i]), phi, v, omega,
                          fluid) :
                      phi \in {FreshPhi(rot, FreshSection(rot.sections[i]), v,
                                        omega)}}} : TRUE

\* T, Q, P of a solve of rot whose sections hold nothing of an earlier solve
RECURSIVE FreshSolve(_, _, _, _, _, _, _)
FreshSolve(rot, i, T, Q, rpm, v_inflow, r_inflow) ==
    IF i > Len(rot.sections) THEN <<T, Q, FMul(Q, omega_of(rpm))>>
    ELSE CHOOSE r \in
             {FreshSolve(rot, i + 1, FAdd(T, d[1]), FAdd(Q, d[2]), rpm,
                         v_inflow, r_inflow) :
                 d \in {FreshForces(rot, i,
                                    IF rot.sections[i].radius < r_inflow
                                    THEN v_inflow ELSE 0,
                                    omega_of(rpm))}} : TRUE

\* the inflow velocity Solver.slipstream gives the secondary rotor for the
\* thrust T of the primary rotor
FreshInflow(T) ==
    FMul(self.Cs, FSqrt(FDiv(FMul(Fl(2), T), FMul(fluid.rho, rotor.area))))

\* what run returns for the current attributes and pitches from sections that
\* hold nothing of an earlier solve
FreshRun ==
    CHOOSE r \in
        {IF ~self.coaxial THEN r1
         ELSE r1 \o CHOOSE r2 \in
                        {FreshSolve(rotor2, 1, 0, 0, self.rpm2, v,
                                    FDiv(rotor.blade_radius, FSqrt(Fl(2)))) :
                            v \in {FreshInflow(r1[1])}} : TRUE :
            r1 \in {FreshSolve(rotor, 1, 0, 0, self.rpm, self.v_inf,
                               rotor.diameter)}} : TRUE

\* C8: the T, Q, P (and T2, Q2, P2) run returns are those of a run with the
\* same attributes and pitches on sections that hold nothing of an earlier
\* solve, whatever runs and sweep iterations came before.
C8_RunIndependentOfHistory == pc = "return" => run_value = FreshRun

\* C8: the second iteration of a sweep is about to return, on sections that
\* hold the state of a first iteration in which a section fell back to brute
\* force
C8_RunAfterFallback ==
    /\ pc = "return" /\ op = "sweep" /\ sw.i >= 1
    /\ \E j \in 1..Len(sw.logs[1]) : sw.logs[1][j].trace = <<"bisect", "brute">>
    /\ \E j \in 1..Len(log) : log[j].trace = <<"bisect">>

\* C9: a non-finite residual never makes a phi a root: brute_solve returns no
\* point with a non-finite residual when some point has a finite one, and a
\* bisection with a non-finite residual at an end of its bracket is handled as
\* a bracket failure that falls back to brute force.
C9_NonFiniteIsNoRoot ==
    /\ \A j \in BruteEntries :
          (\E m \in 1..BruteN : IsFinite(log[j].res[m]))
              => IsFinite(log[j].res[GridIndex(j)])
    /\ \A j \in 1..Len(log) : log[j].nonfinite_end => log[j].bracket_failed

\* C10: for every candidate, in every configuration, the objective of
\* optimize_pitch returns -T (or -P in turbine mode) of the primary rotor.
C10_ObjectiveReturns ==
    pc = "objective" =>
        objective(self, ret.value) =
            [exc |-> "", fun |-> FNeg(IF self.mode = "turbine" THEN self.P ELSE self.T)]

====
